---- MODULE Spec2Model ----
(***************************************************************************)
(* A model of package mtx (src/mtx.go) and of its in-memory library        *)
(* changer, package mock (src/mock/mock.go).                               *)
(*                                                                         *)
(* Go strings and byte slices are sequences of one-character strings, so   *)
(* that formatting (fmt.Sprintf, strconv.Itoa), line scanning              *)
(* (bufio.Scanner), regular-expression matching (regexp) and number        *)
(* parsing (strconv.Atoi) are computed character by character.             *)
(* A Go slice indexed from 0 is a sequence indexed from 1: chgr.slots[i]   *)
(* of the source is slots[i + 1] here.                                     *)
(***************************************************************************)
EXTENDS Integers, Sequences, FiniteSets, TLC

VARIABLES
    impl,      \* which mtx.Interface the mtx.Changer wraps: "mock" or "exec"
    mock,      \* the mock.Changer: drives, slots, numDrives, numStorageSlots, numMailSlots
    newArgs,   \* the arguments New was called with
    stdout,    \* impl = "exec": the bytes the external program prints for "status"
    last,      \* the last call on the mtx.Changer: its name, arguments and results,
               \* recorded for the first BoundOps calls and for a call that panics
    nops,      \* the number of calls on the mtx.Changer since New, up to BoundOps
    execErr,   \* impl = "exec": the error of running the external program, or nil
    ndo        \* the number of times the last call invoked chgr.Do

vars == <<impl, mock, newArgs, stdout, last, nops, execErr, ndo>>

----------------------------------------------------------------------------
(* Bounds of the model. *)

\* New is called with numDrives in 0..BoundDrives.
BoundDrives == 1
\* New is called with numStorageSlots in 0..BoundStorage.
BoundStorage == 2
\* New is called with numMailSlots in 0..BoundMail.
BoundMail == 1
\* New is called with numVolumes in 0..BoundVolumes.
BoundVolumes == 2
\* The first BoundOps calls after New are recorded in last.
BoundOps == 1
\* The external program prints at most BoundLines lines.
BoundLines == 3

----------------------------------------------------------------------------
(* String literals of the source. *)

\* "status"
sCmdStatus == <<"s", "t", "a", "t", "u", "s">>
\* "load"
sCmdLoad == <<"l", "o", "a", "d">>
\* "unload"
sCmdUnload == <<"u", "n", "l", "o", "a", "d">>
\* "transfer"
sCmdTransfer == <<"t", "r", "a", "n", "s", "f", "e", "r">>
\* "/dev/mock"
sDevMock == <<"/", "d", "e", "v", "/", "m", "o", "c", "k">>
\* "  Storage Changer "
sHdrA == <<" ", " ", "S", "t", "o", "r", "a", "g", "e", " ", "C", "h", "a", "n", "g", "e", "r", " ">>
\* ":"
sColon == <<":">>
\* " Drives, "
sHdrB == <<" ", "D", "r", "i", "v", "e", "s", ",", " ">>
\* " Slots ( "
sHdrC == <<" ", "S", "l", "o", "t", "s", " ", "(", " ">>
\* " Import/Export )"
sHdrD == <<" ", "I", "m", "p", "o", "r", "t", "/", "E", "x", "p", "o", "r", "t", " ", ")">>
\* "Data Transfer Element "
sDriveLine == <<"D", "a", "t", "a", " ", "T", "r", "a", "n", "s", "f", "e", "r", " ", "E", "l", "e", "m", "e", "n", "t", " ">>
\* "      Storage Element "
sSlotLine == <<" ", " ", " ", " ", " ", " ", "S", "t", "o", "r", "a", "g", "e", " ", "E", "l", "e", "m", "e", "n", "t", " ">>
\* " IMPORT/EXPORT"
sImpExp == <<" ", "I", "M", "P", "O", "R", "T", "/", "E", "X", "P", "O", "R", "T">>
\* "Empty"
sEmpty == <<"E", "m", "p", "t", "y">>
\* "Full (Storage Element "
sFullDrvA == <<"F", "u", "l", "l", " ", "(", "S", "t", "o", "r", "a", "g", "e", " ", "E", "l", "e", "m", "e", "n", "t", " ">>
\* " Loaded):VolumeTag = "
sFullDrvB == <<" ", "L", "o", "a", "d", "e", "d", ")", ":", "V", "o", "l", "u", "m", "e", "T", "a", "g", " ", "=", " ">>
\* "Full :VolumeTag="
sFullSlot == <<"F", "u", "l", "l", " ", ":", "V", "o", "l", "u", "m", "e", "T", "a", "g", "=">>
\* "CLN000L1"
sCLN == <<"C", "L", "N", "0", "0", "0", "L", "1">>
\* "L6"
sL6 == <<"L", "6">>

----------------------------------------------------------------------------
(* strconv and fmt. *)

Digits == <<"0", "1", "2", "3", "4", "5", "6", "7", "8", "9">>

IsDigit(c) == \E i \in 1..10 : Digits[i] = c

DigitVal(c) == (CHOOSE i \in 1..10 : Digits[i] = c) - 1

RECURSIVE UItoa(_)
UItoa(n) == IF n < 10 THEN <<Digits[n + 1]>>
            ELSE Append(UItoa(n \div 10), Digits[(n % 10) + 1])

\* strconv.Itoa
Itoa(n) == IF n < 0 THEN <<"-">> \o UItoa(0 - n) ELSE UItoa(n)

RECURSIVE DigitsVal(_, _)
DigitsVal(s, acc) == IF s = <<>> THEN acc
                     ELSE DigitsVal(Tail(s), 10 * acc + DigitVal(Head(s)))

\* strconv.Atoi: an optional sign and at least one digit, nothing else.
Atoi(s) ==
    LET signed == s # <<>> /\ Head(s) \in {"+", "-"}
        body == IF signed THEN Tail(s) ELSE s
        ok == body # <<>> /\ \A i \in 1..Len(body) : IsDigit(body[i])
    IN IF ~ok THEN [val |-> 0, err |-> "strconv.Atoi: invalid syntax"]
       ELSE [val |-> IF signed /\ Head(s) = "-" THEN 0 - DigitsVal(body, 0)
                     ELSE DigitsVal(body, 0),
             err |-> "nil"]

RECURSIVE ZeroPad(_, _)
ZeroPad(s, w) == IF Len(s) >= w THEN s ELSE ZeroPad(<<"0">> \o s, w)

\* fmt.Sprintf("S%05dL6", i)
SerialOf(i) == <<"S">> \o ZeroPad(Itoa(i), 5) \o sL6

----------------------------------------------------------------------------
(* package mtx: types. *)

DataTransferSlot == "DataTransferSlot"
StorageSlot == "StorageSlot"
MailSlot == "MailSlot"

\* a nil *Volume
Nil == [nil |-> TRUE]

Volume(serial, home) == [Serial |-> serial, Home |-> home]

Slot(num, type, vol) == [Num |-> num, Type |-> type, Vol |-> vol]

\* the nil error
NoErr == "nil"

\* a run-time panic (nil dereference, index out of range): the call does not return
Panic == "panic"

----------------------------------------------------------------------------
(* package mock. *)

\* NewSlot, with the extra volume put in the first mail slot, not the last
NewSlotFirstMail(i, numStorageSlots, numMailSlots, numVolumes) ==
    LET v1 == IF i < numVolumes THEN Volume(SerialOf(i), i + 1) ELSE Nil
        v2 == IF i = numStorageSlots - 1 THEN Volume(sCLN, i + 1) ELSE v1
        ty == IF i >= numStorageSlots THEN MailSlot ELSE StorageSlot
        v3 == IF i = numStorageSlots
              THEN Volume(SerialOf(numVolumes), i) ELSE v2
    IN Slot(i + 1, ty, v3)

\* The slot New builds at index i (from 0) of chgr.slots.
NewSlot(i, numStorageSlots, numMailSlots, numVolumes) ==
    LET v1 == IF i < numVolumes THEN Volume(SerialOf(i), i + 1) ELSE Nil
        v2 == IF i = numStorageSlots - 1 THEN Volume(sCLN, i + 1) ELSE v1
        ty == IF i >= numStorageSlots THEN MailSlot ELSE StorageSlot
        v3 == IF i = numStorageSlots + numMailSlots - 1
              THEN Volume(SerialOf(numVolumes), i) ELSE v2
    IN Slot(i + 1, ty, v3)

New(numDrives, numStorageSlots, numMailSlots, numVolumes) ==
    [drives |-> [i \in 1..numDrives |-> Slot(i - 1, DataTransferSlot, Nil)],
     slots |-> [i \in 1..(numStorageSlots + numMailSlots) |->
                   NewSlot(i - 1, numStorageSlots, numMailSlots, numVolumes)],
     numDrives |-> numDrives,
     numStorageSlots |-> numStorageSlots,
     numMailSlots |-> numMailSlots]

\* Go indexes a slice of length n with 0 <= i < n, and panics otherwise.
InRange(i, n) == 0 <= i /\ i < n

Ret(chgr, out, err) == [chgr |-> chgr, out |-> out, err |-> err]

\* load, with the slot left holding the volume it gave to the drive
loadKeepsSlot(chgr, slotnum, drivenum) ==
    IF ~InRange(slotnum - 1, Len(chgr.slots)) THEN Ret(chgr, <<>>, Panic)
    ELSE IF ~InRange(drivenum, Len(chgr.drives)) THEN Ret(chgr, <<>>, Panic)
    ELSE Ret([chgr EXCEPT !.drives[drivenum + 1].Vol = chgr.slots[slotnum].Vol],
             <<>>, NoErr)

load(chgr, slotnum, drivenum) ==
    IF ~InRange(slotnum - 1, Len(chgr.slots)) THEN Ret(chgr, <<>>, Panic)
    ELSE IF ~InRange(drivenum, Len(chgr.drives)) THEN Ret(chgr, <<>>, Panic)
    ELSE Ret([chgr EXCEPT !.drives[drivenum + 1].Vol = chgr.slots[slotnum].Vol,
                          !.slots[slotnum].Vol = Nil],
             <<>>, NoErr)

\* unload, with the drive given the volume the destination held
unloadSwaps(chgr, slotnum, drivenum) ==
    IF ~InRange(drivenum, Len(chgr.drives)) THEN Ret(chgr, <<>>, Panic)
    ELSE LET drv == chgr.drives[drivenum + 1] IN
         IF slotnum = 0 /\ drv.Vol = Nil THEN Ret(chgr, <<>>, Panic)
         ELSE LET dest == IF slotnum = 0 THEN drv.Vol.Home ELSE slotnum IN
              IF ~InRange(dest - 1, Len(chgr.slots)) THEN Ret(chgr, <<>>, Panic)
              ELSE Ret([chgr EXCEPT !.slots[dest].Vol = drv.Vol,
                                    !.drives[drivenum + 1].Vol = chgr.slots[dest].Vol],
                       <<>>, NoErr)

\* unload, with the drive left holding the volume it gave to the slot
unloadKeepsDrive(chgr, slotnum, drivenum) ==
    IF ~InRange(drivenum, Len(chgr.drives)) THEN Ret(chgr, <<>>, Panic)
    ELSE LET drv == chgr.drives[drivenum + 1] IN
         IF slotnum = 0 /\ drv.Vol = Nil THEN Ret(chgr, <<>>, Panic)
         ELSE LET dest == IF slotnum = 0 THEN drv.Vol.Home ELSE slotnum IN
              IF ~InRange(dest - 1, Len(chgr.slots)) THEN Ret(chgr, <<>>, Panic)
              ELSE Ret([chgr EXCEPT !.slots[dest].Vol = drv.Vol], <<>>, NoErr)

unload(chgr, slotnum, drivenum) ==
    IF ~InRange(drivenum, Len(chgr.drives)) THEN Ret(chgr, <<>>, Panic)
    ELSE LET drv == chgr.drives[drivenum + 1] IN
         IF slotnum = 0 /\ drv.Vol = Nil THEN Ret(chgr, <<>>, Panic)
         ELSE LET dest == IF slotnum = 0 THEN drv.Vol.Home ELSE slotnum IN
              IF ~InRange(dest - 1, Len(chgr.slots)) THEN Ret(chgr, <<>>, Panic)
              ELSE Ret([chgr EXCEPT !.slots[dest].Vol = drv.Vol,
                                    !.drives[drivenum + 1].Vol = Nil],
                       <<>>, NoErr)

\* transfer, with the moved volume's home set to its new slot
transferRehomes(chgr, from, to) ==
    IF ~InRange(from - 1, Len(chgr.slots)) THEN Ret(chgr, <<>>, Panic)
    ELSE IF chgr.slots[from].Vol = Nil
    THEN Ret(chgr, <<>>, "unable to transfer volume: no volume in slot")
    ELSE IF ~InRange(to - 1, Len(chgr.slots)) THEN Ret(chgr, <<>>, Panic)
    ELSE IF chgr.slots[to].Vol # Nil
    THEN Ret(chgr, <<>>, "unable to transfer volume: slot already occupied")
    ELSE Ret([chgr EXCEPT !.slots[to].Vol = Volume(chgr.slots[from].Vol.Serial, to),
                          !.slots[from].Vol = Nil],
             <<>>, NoErr)

\* transfer, without the check that the destination is free
transferNoDestCheck(chgr, from, to) ==
    IF ~InRange(from - 1, Len(chgr.slots)) THEN Ret(chgr, <<>>, Panic)
    ELSE IF chgr.slots[from].Vol = Nil
    THEN Ret(chgr, <<>>, "unable to transfer volume: no volume in slot")
    ELSE IF ~InRange(to - 1, Len(chgr.slots)) THEN Ret(chgr, <<>>, Panic)
    ELSE Ret([chgr EXCEPT !.slots[to].Vol = chgr.slots[from].Vol,
                          !.slots[from].Vol = Nil],
             <<>>, NoErr)

\* transfer, with the source emptied before the destination is checked
transferEmptiesFirst(chgr, from, to) ==
    IF ~InRange(from - 1, Len(chgr.slots)) THEN Ret(chgr, <<>>, Panic)
    ELSE IF chgr.slots[from].Vol = Nil
    THEN Ret(chgr, <<>>, "unable to transfer volume: no volume in slot")
    ELSE IF ~InRange(to - 1, Len(chgr.slots)) THEN Ret(chgr, <<>>, Panic)
    ELSE IF chgr.slots[to].Vol # Nil
    THEN Ret([chgr EXCEPT !.slots[from].Vol = Nil], <<>>,
             "unable to transfer volume: slot already occupied")
    ELSE Ret([chgr EXCEPT !.slots[to].Vol = chgr.slots[from].Vol,
                          !.slots[from].Vol = Nil],
             <<>>, NoErr)

transfer(chgr, from, to) ==
    IF ~InRange(from - 1, Len(chgr.slots)) THEN Ret(chgr, <<>>, Panic)
    ELSE IF chgr.slots[from].Vol = Nil
    THEN Ret(chgr, <<>>, "unable to transfer volume: no volume in slot")
    ELSE IF ~InRange(to - 1, Len(chgr.slots)) THEN Ret(chgr, <<>>, Panic)
    ELSE IF chgr.slots[to].Vol # Nil
    THEN Ret(chgr, <<>>, "unable to transfer volume: slot already occupied")
    ELSE Ret([chgr EXCEPT !.slots[to].Vol = chgr.slots[from].Vol,
                          !.slots[from].Vol = Nil],
             <<>>, NoErr)

\* mtxSlotString
mtxSlotString(slot) ==
    IF slot.Vol = Nil THEN sEmpty
    ELSE IF slot.Type = DataTransferSlot
    THEN sFullDrvA \o Itoa(slot.Vol.Home) \o sFullDrvB \o slot.Vol.Serial
    ELSE sFullSlot \o slot.Vol.Serial

RECURSIVE Concat(_)
Concat(ss) == IF ss = <<>> THEN <<>> ELSE Head(ss) \o Concat(Tail(ss))

\* fmt.Sprintf("  Storage Changer %s:%d Drives, %d Slots ( %d Import/Export )\n", ...)
HeaderLine(chgr) ==
    sHdrA \o sDevMock \o sColon \o Itoa(chgr.numDrives) \o sHdrB
        \o Itoa(chgr.numStorageSlots + chgr.numMailSlots) \o sHdrC
        \o Itoa(chgr.numMailSlots) \o sHdrD \o <<"\n">>

\* fmt.Sprintf("Data Transfer Element %d:%s\n", i, mtxSlotString(slot))
DriveLine(i, slot) ==
    sDriveLine \o Itoa(i) \o sColon \o mtxSlotString(slot) \o <<"\n">>

\* fmt.Sprintf("      Storage Element %d%s:%s\n", slot.Num, extra, mtxSlotString(slot))
SlotLine(slot) ==
    sSlotLine \o Itoa(slot.Num) \o (IF slot.Type = MailSlot THEN sImpExp ELSE <<>>)
        \o sColon \o mtxSlotString(slot) \o <<"\n">>

\* Changer.status of package mock: the header, the drives, the slots.
status(chgr) ==
    Ret(chgr,
        HeaderLine(chgr)
            \o Concat([i \in 1..Len(chgr.drives) |-> DriveLine(i - 1, chgr.drives[i])])
            \o Concat([i \in 1..Len(chgr.slots) |-> SlotLine(chgr.slots[i])]),
        NoErr)

\* Changer.Do of package mock
Do(chgr, args) ==
    IF Len(args) < 1 THEN Ret(chgr, <<>>, "no command given")
    ELSE IF args[1] = sCmdStatus THEN status(chgr)
    ELSE IF Len(args) # 3 THEN Ret(chgr, <<>>, "wrong number of arguments")
    ELSE LET a == Atoi(args[2])
             b == Atoi(args[3])
         IN IF a.err # NoErr THEN Ret(chgr, <<>>, a.err)
            ELSE IF b.err # NoErr THEN Ret(chgr, <<>>, b.err)
            ELSE IF args[1] = sCmdLoad THEN load(chgr, a.val, b.val)
            ELSE IF args[1] = sCmdUnload THEN unload(chgr, a.val, b.val)
            ELSE IF args[1] = sCmdTransfer THEN transfer(chgr, a.val, b.val)
            ELSE Ret(chgr, <<>>, "mtx/mock: unknown or unsupported mtx command")

----------------------------------------------------------------------------
(* bufio.Scanner with the default split function, bufio.ScanLines. *)

\* The index of the first "\n" of s at or after p, or 0.
RECURSIVE IndexNL(_, _)
IndexNL(s, p) == IF p > Len(s) THEN 0
                 ELSE IF s[p] = "\n" THEN p
                 ELSE IndexNL(s, p + 1)

\* dropCR: a line loses one trailing "\r".
DropCR(line) == IF line # <<>> /\ line[Len(line)] = "\r"
                THEN SubSeq(line, 1, Len(line) - 1) ELSE line

\* The lines Scan yields in turn; a last line need not end in "\n", and an
\* empty rest yields nothing.
RECURSIVE ScanLines(_)
ScanLines(data) ==
    IF data = <<>> THEN <<>>
    ELSE LET nl == IndexNL(data, 1) IN
         IF nl = 0 THEN <<DropCR(data)>>
         ELSE <<DropCR(SubSeq(data, 1, nl - 1))>>
                  \o ScanLines(SubSeq(data, nl + 1, Len(data)))

----------------------------------------------------------------------------
(* package regexp, for the patterns of mtx.go: a pattern is a sequence of   *)
(* literals and of starred character classes, captured or not.  Matching is *)
(* leftmost, and each star is greedy and backtracks.                        *)

Lit(s) == [t |-> "lit", s |-> s]
Star(class) == [t |-> "star", class |-> class, cap |-> FALSE]
CapStar(class) == [t |-> "star", class |-> class, cap |-> TRUE]

\* \s is [\t\n\f\r ], \d is [0-9], . is any character but "\n"
InClass(class, c) ==
    CASE class = "s" -> c \in {" ", "\t", "\n", "\f", "\r"}
      [] class = "d" -> IsDigit(c)
      [] class = "." -> c # "\n"

\* The length of the longest run of class characters of s from p.
RECURSIVE Run(_, _, _)
Run(class, s, p) == IF p > Len(s) \/ ~InClass(class, s[p]) THEN 0
                    ELSE 1 + Run(class, s, p + 1)

NoMatch == [ok |-> FALSE]

\* Whether a match of re[k..] can begin at s[p]: a literal needs its first
\* character there, a star a character of its class or what follows the star.
\* Positions that fail this are skipped; the others are tried in full.
RECURSIVE CanBegin(_, _, _, _)
CanBegin(re, k, s, p) ==
    IF k > Len(re) THEN TRUE
    ELSE IF re[k].t = "lit" THEN p <= Len(s) /\ s[p] = re[k].s[1]
    ELSE (p <= Len(s) /\ InClass(re[k].class, s[p])) \/ CanBegin(re, k + 1, s, p)

RECURSIVE MatchHere(_, _, _, _, _)
RECURSIVE MatchStar(_, _, _, _, _, _)
\* re[k..] matched against s from p; caps are the captures so far.
MatchHere(re, k, s, p, caps) ==
    IF k > Len(re) THEN [ok |-> TRUE, caps |-> caps]
    ELSE IF re[k].t = "lit"
    THEN LET n == Len(re[k].s) IN
         IF p + n - 1 <= Len(s) /\ s[p] = re[k].s[1]
                /\ SubSeq(s, p, p + n - 1) = re[k].s
         THEN MatchHere(re, k + 1, s, p + n, caps)
         ELSE NoMatch
    ELSE LET run == Run(re[k].class, s, p) IN
         MatchStar(re, k, s, p,
                   SelectSeq([i \in 1..(run + 1) |-> run + 1 - i],
                             LAMBDA n : CanBegin(re, k + 1, s, p + n)),
                   caps)

\* the star re[k] taking the lengths lens in turn, the longest first (greedy)
MatchStar(re, k, s, p, lens, caps) ==
    IF lens = <<>> THEN NoMatch
    ELSE LET n == Head(lens)
             r == MatchHere(re, k + 1, s, p + n,
                            IF re[k].cap THEN Append(caps, SubSeq(s, p, p + n - 1))
                            ELSE caps)
         IN IF r.ok THEN r ELSE MatchStar(re, k, s, p, Tail(lens), caps)

\* the match that begins leftmost, among the start positions in turn
RECURSIVE MatchFrom(_, _, _)
MatchFrom(re, s, starts) ==
    IF starts = <<>> THEN NoMatch
    ELSE LET r == MatchHere(re, 1, s, Head(starts), <<>>)
         IN IF r.ok THEN r ELSE MatchFrom(re, s, Tail(starts))

\* Regexp.FindStringSubmatch: NoMatch for nil; else caps[i] is matches[i] of
\* the source, for i >= 1 (matches[0], the whole match, is never used).
FindStringSubmatch(re, s) ==
    MatchFrom(re, s, SelectSeq([i \in 1..(Len(s) + 1) |-> i],
                               LAMBDA p : CanBegin(re, 1, s, p)))

\* "Storage Changer"
reStorageChanger == <<"S", "t", "o", "r", "a", "g", "e", " ", "C", "h", "a", "n", "g", "e", "r">>
\* " Drives, "
reDrives == <<" ", "D", "r", "i", "v", "e", "s", ",", " ">>
\* " Slots ("
reSlotsParen == <<" ", "S", "l", "o", "t", "s", " ", "(">>
\* " Import/Export )"
reImpExpParen == <<" ", "I", "m", "p", "o", "r", "t", "/", "E", "x", "p", "o", "r", "t", " ", ")">>
\* "Data Transfer Element "
reDataTransferElement == <<"D", "a", "t", "a", " ", "T", "r", "a", "n", "s", "f", "e", "r", " ", "E", "l", "e", "m", "e", "n", "t", " ">>
\* "Full (Storage Element "
reFullStorageElement == <<"F", "u", "l", "l", " ", "(", "S", "t", "o", "r", "a", "g", "e", " ", "E", "l", "e", "m", "e", "n", "t", " ">>
\* " Loaded):VolumeTag = "
reLoadedVolumeTag == <<" ", "L", "o", "a", "d", "e", "d", ")", ":", "V", "o", "l", "u", "m", "e", "T", "a", "g", " ", "=", " ">>
\* "Storage Element "
reStorageElement == <<"S", "t", "o", "r", "a", "g", "e", " ", "E", "l", "e", "m", "e", "n", "t", " ">>
\* " IMPORT/EXPORT:"
reImportExportColon == <<" ", "I", "M", "P", "O", "R", "T", "/", "E", "X", "P", "O", "R", "T", ":">>
\* "Full :VolumeTag="
reFullVolumeTag == <<"F", "u", "l", "l", " ", ":", "V", "o", "l", "u", "m", "e", "T", "a", "g", "=">>

\* `\s*Storage Changer\s*(.*):(\d*) Drives, (\d*) Slots \((\d*) Import/Export \)`
hdrRegexp ==
    <<Star("s"), Lit(reStorageChanger), Star("s"), CapStar("."), Lit(sColon),
      CapStar("d"), Lit(reDrives), CapStar("d"), Lit(reSlotsParen), CapStar("d"),
      Lit(reImpExpParen)>>

\* `Data Transfer Element (\d*):(.*)`
driveRegexp ==
    <<Lit(reDataTransferElement), CapStar("d"), Lit(sColon), CapStar(".")>>

\* `Full \(Storage Element (\d*) Loaded\):VolumeTag = (.*)`
driveElementRegexp ==
    <<Lit(reFullStorageElement), CapStar("d"), Lit(reLoadedVolumeTag), CapStar(".")>>

\* `\s*Storage Element (\d*):(.*)`
slotRegexp ==
    <<Star("s"), Lit(reStorageElement), CapStar("d"), Lit(sColon), CapStar(".")>>

\* `\s*Storage Element (\d*) IMPORT/EXPORT:(.*)`
mailSlotRegexp ==
    <<Star("s"), Lit(reStorageElement), CapStar("d"), Lit(reImportExportColon),
      CapStar(".")>>

\* `Full :VolumeTag=(.*)`
slotElementRegexp == <<Lit(reFullVolumeTag), CapStar(".")>>

----------------------------------------------------------------------------
(* package mtx: the parsers. *)

NoElements == [transfer |-> <<>>, storage |-> <<>>, mail |-> <<>>]

\* The loop of Changer.elements over the lines after the header.
RECURSIVE ScanElements(_, _)
ScanElements(lines, elements) ==
    IF lines = <<>> THEN [elements |-> elements, err |-> NoErr]
    ELSE
    LET line == Head(lines)
        dm == FindStringSubmatch(driveRegexp, line)
        sm == FindStringSubmatch(slotRegexp, line)
        mm == FindStringSubmatch(mailSlotRegexp, line)
    IN
    IF dm.ok THEN
        LET elemnum == Atoi(dm.caps[1])
            fm == FindStringSubmatch(driveElementRegexp, dm.caps[2])
        IN
        IF elemnum.err # NoErr THEN [elements |-> NoElements, err |-> elemnum.err]
        ELSE IF dm.caps[2] = sEmpty
        THEN ScanElements(Tail(lines),
                 [elements EXCEPT !.transfer =
                     Append(@, Slot(elemnum.val, DataTransferSlot, Nil))])
        ELSE IF ~fm.ok
        THEN [elements |-> NoElements, err |-> "failed to parse transfer element"]
        ELSE LET home == Atoi(fm.caps[1]) IN
             IF home.err # NoErr THEN [elements |-> NoElements, err |-> home.err]
             ELSE ScanElements(Tail(lines),
                      [elements EXCEPT !.transfer =
                          Append(@, Slot(elemnum.val, DataTransferSlot,
                                         Volume(fm.caps[2], home.val)))])
    ELSE IF sm.ok THEN
        LET elemnum == Atoi(sm.caps[1])
            fm == FindStringSubmatch(slotElementRegexp, sm.caps[2])
        IN
        IF elemnum.err # NoErr THEN [elements |-> NoElements, err |-> elemnum.err]
        ELSE IF sm.caps[2] = sEmpty
        THEN ScanElements(Tail(lines),
                 [elements EXCEPT !.storage =
                     Append(@, Slot(elemnum.val, StorageSlot, Nil))])
        ELSE IF ~fm.ok
        THEN [elements |-> NoElements, err |-> "failed to parse slot element: ..."]
        ELSE ScanElements(Tail(lines),
                 [elements EXCEPT !.storage =
                     Append(@, Slot(elemnum.val, StorageSlot,
                                    Volume(fm.caps[1], elemnum.val)))])
    ELSE IF mm.ok THEN
        LET elemnum == Atoi(mm.caps[1])
            fm == FindStringSubmatch(slotElementRegexp, mm.caps[2])
        IN
        IF elemnum.err # NoErr THEN [elements |-> NoElements, err |-> elemnum.err]
        ELSE IF mm.caps[2] = sEmpty
        THEN ScanElements(Tail(lines),
                 [elements EXCEPT !.mail =
                     Append(@, Slot(elemnum.val, MailSlot, Nil))])
        ELSE IF ~fm.ok
        THEN [elements |-> NoElements, err |-> "failed to parse slot element"]
        ELSE ScanElements(Tail(lines),
                 [elements EXCEPT !.mail =
                     Append(@, Slot(elemnum.val, MailSlot,
                                    Volume(fm.caps[1], elemnum.val)))])
    ELSE [elements |-> NoElements, err |-> "failed to parse slot"]

\* A drive, storage or mail line whose state is neither "Empty" nor the Full
\* encoding of its kind.
BadNested(line) ==
    LET dm == FindStringSubmatch(driveRegexp, line)
        sm == FindStringSubmatch(slotRegexp, line)
        mm == FindStringSubmatch(mailSlotRegexp, line)
    IN IF dm.ok
       THEN dm.caps[2] # sEmpty /\ ~FindStringSubmatch(driveElementRegexp, dm.caps[2]).ok
       ELSE IF sm.ok
       THEN sm.caps[2] # sEmpty /\ ~FindStringSubmatch(slotElementRegexp, sm.caps[2]).ok
       ELSE IF mm.ok
       THEN mm.caps[2] # sEmpty /\ ~FindStringSubmatch(slotElementRegexp, mm.caps[2]).ok
       ELSE FALSE

\* elements, with the lines whose state it cannot read left out
elementsSkipsBad(statusText) ==
    LET lines == ScanLines(statusText) IN
    ScanElements(IF lines = <<>> THEN <<>>
                 ELSE SelectSeq(Tail(lines), LAMBDA l : ~BadNested(l)),
                 NoElements)

\* Changer.elements: the first Scan skips the header, whatever it is; on an
\* error the map returned is nil, which reads as no slots.
elements(statusText) ==
    LET lines == ScanLines(statusText) IN
    ScanElements(IF lines = <<>> THEN <<>> ELSE Tail(lines), NoElements)

\* A map[string]int read at a key it does not hold gives 0; so does a nil map.
NoParams == [maxDrives |-> 0, numSlots |-> 0, numMailSlots |-> 0]

\* Changer.params: with no first line, the empty map and no error.
params(statusText) ==
    LET lines == ScanLines(statusText) IN
    IF lines = <<>> THEN [params |-> NoParams, err |-> NoErr]
    ELSE
    LET matches == FindStringSubmatch(hdrRegexp, Head(lines)) IN
    IF ~matches.ok
    THEN [params |-> NoParams, err |-> "failed to match mtx status header"]
    ELSE
    LET maxDrives == Atoi(matches.caps[2])
        numSlots == Atoi(matches.caps[3])
        numMailSlots == Atoi(matches.caps[4])
    IN
    IF maxDrives.err # NoErr THEN [params |-> NoParams, err |-> maxDrives.err]
    ELSE IF numSlots.err # NoErr THEN [params |-> NoParams, err |-> numSlots.err]
    ELSE IF numMailSlots.err # NoErr
    THEN [params |-> NoParams, err |-> numMailSlots.err]
    ELSE [params |-> [maxDrives |-> maxDrives.val, numSlots |-> numSlots.val,
                      numMailSlots |-> numMailSlots.val],
          err |-> NoErr]

----------------------------------------------------------------------------
(* package mtx: the Changer's queries.  Each takes r, what chgr.Do("status") *)
(* returned (r.out, r.err), and gives the pair the method returns.           *)

Result(val, err) == [val |-> val, err |-> err]

MaxDrives(r) ==
    IF r.err # NoErr THEN Result(-1, r.err)
    ELSE LET p == params(r.out) IN
         IF p.err # NoErr THEN Result(-1, p.err)
         ELSE Result(p.params.maxDrives, NoErr)

NumSlots(r) ==
    IF r.err # NoErr THEN Result(-1, r.err)
    ELSE LET p == params(r.out) IN
         IF p.err # NoErr THEN Result(-1, p.err)
         ELSE Result(p.params.numSlots, NoErr)

NumStorageSlots(r) ==
    IF r.err # NoErr THEN Result(-1, r.err)
    ELSE LET p == params(r.out) IN
         IF p.err # NoErr THEN Result(-1, p.err)
         ELSE Result(p.params.numSlots - p.params.numMailSlots, NoErr)

NumMailSlots(r) ==
    IF r.err # NoErr THEN Result(-1, r.err)
    ELSE LET p == params(r.out) IN
         IF p.err # NoErr THEN Result(-1, p.err)
         ELSE Result(p.params.numMailSlots, NoErr)

Drives(r) ==
    IF r.err # NoErr THEN Result(<<>>, r.err)
    ELSE LET e == elements(r.out) IN
         IF e.err # NoErr THEN Result(<<>>, e.err)
         ELSE Result(e.elements.transfer, NoErr)

\* Slots, with the mail slots put before the storage slots
SlotsMailFirst(r) ==
    IF r.err # NoErr THEN Result(<<>>, r.err)
    ELSE LET e == elements(r.out) IN
         IF e.err # NoErr THEN Result(<<>>, e.err)
         ELSE Result(e.elements.mail \o e.elements.storage, NoErr)

Slots(r) ==
    IF r.err # NoErr THEN Result(<<>>, r.err)
    ELSE LET e == elements(r.out) IN
         IF e.err # NoErr THEN Result(<<>>, e.err)
         ELSE Result(e.elements.storage \o e.elements.mail, NoErr)

StorageSlots(r) ==
    IF r.err # NoErr THEN Result(<<>>, r.err)
    ELSE LET e == elements(r.out) IN
         IF e.err # NoErr THEN Result(<<>>, e.err)
         ELSE Result(e.elements.storage, NoErr)

MailSlots(r) ==
    IF r.err # NoErr THEN Result(<<>>, r.err)
    ELSE LET e == elements(r.out) IN
         IF e.err # NoErr THEN Result(<<>>, e.err)
         ELSE Result(e.elements.mail, NoErr)

\* a nil *Status
NoStatus == [nil |-> TRUE]

\* Status, with a failure of the executor answered by what its output parses to
StatusFallback(r) ==
    LET p == params(r.out).params
        e == elements(r.out).elements
    IN Result([MaxDrives |-> p.maxDrives,
               NumSlots |-> p.numSlots,
               NumStorageSlots |-> p.numSlots - p.numMailSlots,
               NumMailSlots |-> p.numMailSlots,
               Drives |-> e.transfer,
               Slots |-> e.storage \o e.mail],
              NoErr)

\* Changer.Status: the errors of params and of elements are assigned and never
\* read; a Status is built from whatever the two returned.
Status(r) ==
    IF r.err # NoErr THEN Result(NoStatus, r.err)
    ELSE LET p == params(r.out).params
             e == elements(r.out).elements
         IN Result([MaxDrives |-> p.maxDrives,
                    NumSlots |-> p.numSlots,
                    NumStorageSlots |-> p.numSlots - p.numMailSlots,
                    NumMailSlots |-> p.numMailSlots,
                    Drives |-> e.transfer,
                    Slots |-> e.storage \o e.mail],
                   NoErr)

----------------------------------------------------------------------------------------------------------------------------------------
(* The state machine: an mtx.Changer over a mock.Changer (Spec), or over an *)
(* executor that runs an external program (SpecParse).                      *)

\* no call recorded
NoCall == [op |-> "none", a |-> 0, b |-> 0, val |-> <<>>, err |-> NoErr]

Call(op, a, b, val, err) == [op |-> op, a |-> a, b |-> b, val |-> val, err |-> err]

\* the error scsi's run makes of a failed program: "<exit error>: <stderr>"
ExitErr == "exit status 1: cannot open SCSI device"

\* chgr.Do of the embedded mtx.Interface.  The external program prints stdout
\* and ends with execErr, whatever the command; the library it drives is not
\* modelled.
ChgrDo(args) ==
    IF impl = "mock" THEN Do(mock, args)
    ELSE Ret(mock, stdout, execErr)

\* A call that panicked never returns: nothing follows it.  Over the external
\* program one call is made on each output: the program prints the same text
\* again, so a second call returns what the first did.
Running == last.err # Panic /\ (impl = "mock" \/ nops = 0)

\* The bookkeeping of a call that returned err and left the library as chgr;
\* call is its record.
Step(call, err, chgr) ==
    /\ mock' = chgr
    /\ last' = IF err = Panic \/ nops < BoundOps THEN call ELSE NoCall
    /\ nops' = IF nops < BoundOps THEN nops + 1 ELSE nops
    /\ ndo' = 1
    /\ UNCHANGED <<impl, newArgs, stdout, execErr>>

\* Changer.Load
Load(slotnum, drivenum) ==
    /\ Running
    /\ \E r \in {ChgrDo(<<sCmdLoad, Itoa(slotnum), Itoa(drivenum)>>)} :
          Step(Call("Load", slotnum, drivenum, <<>>, r.err), r.err, r.chgr)

\* Changer.Unload
Unload(slotnum, drivenum) ==
    /\ Running
    /\ \E r \in {ChgrDo(<<sCmdUnload, Itoa(slotnum), Itoa(drivenum)>>)} :
          Step(Call("Unload", slotnum, drivenum, <<>>, r.err), r.err, r.chgr)

\* Changer.Transfer
Transfer(slotnum, drivenum) ==
    /\ Running
    /\ \E r \in {ChgrDo(<<sCmdTransfer, Itoa(slotnum), Itoa(drivenum)>>)} :
          Step(Call("Transfer", slotnum, drivenum, <<>>, r.err), r.err, r.chgr)

Queries == {"MaxDrives", "NumSlots", "NumStorageSlots", "NumMailSlots",
            "Drives", "Slots", "StorageSlots", "MailSlots", "Status"}

QueryResult(q, r) ==
    CASE q = "MaxDrives" -> MaxDrives(r)
      [] q = "NumSlots" -> NumSlots(r)
      [] q = "NumStorageSlots" -> NumStorageSlots(r)
      [] q = "NumMailSlots" -> NumMailSlots(r)
      [] q = "Drives" -> Drives(r)
      [] q = "Slots" -> Slots(r)
      [] q = "StorageSlots" -> StorageSlots(r)
      [] q = "MailSlots" -> MailSlots(r)
      [] q = "Status" -> Status(r)

\* One of the Changer's queries: chgr.Do("status"), then the parse.  What the
\* query returned is computed when the call is recorded.
Query(q) ==
    /\ Running
    /\ \E r \in {ChgrDo(<<sCmdStatus>>)} :
          IF nops < BoundOps
          THEN \E res \in {QueryResult(q, r)} :
                  Step(Call(q, 0, 0, <<res.val>>, res.err), NoErr, r.chgr)
          ELSE Step(NoCall, NoErr, r.chgr)

NumAllSlots == mock.numStorageSlots + mock.numMailSlots

\* The slot numbers of the library.
SlotNums == 1..NumAllSlots

\* The drive numbers of the library.
DriveNums == 0..(mock.numDrives - 1)

Init ==
    /\ impl = "mock"
    /\ \E d \in 0..BoundDrives, s \in 0..BoundStorage, m \in 0..BoundMail,
          k \in 0..BoundVolumes :
          /\ mock = New(d, s, m, k)
          /\ newArgs = [numDrives |-> d, numStorageSlots |-> s,
                        numMailSlots |-> m, numVolumes |-> k]
    /\ stdout = <<>>
    /\ last = NoCall
    /\ nops = 0
    /\ execErr = NoErr
    /\ ndo = 0

Next ==
    \/ \E slotnum \in SlotNums, drivenum \in DriveNums : Load(slotnum, drivenum)
    \/ \E slotnum \in SlotNums \cup {0}, drivenum \in DriveNums :
           Unload(slotnum, drivenum)
    \/ \E from \in SlotNums, to \in SlotNums : Transfer(from, to)
    \/ \E q \in Queries : Query(q)

Spec == Init /\ [][Next]_vars

----------------------------------------------------------------------------
(* SpecParse: the Changer over an executor that returns the output of an    *)
(* external program (package scsi), which may print any text.               *)

\* "Storage Changer /dev/sg0:1 Drives, 2 Slots (1 Import/Export )": a header line that hdrRegexp accepts
lHdrPlain == <<"S", "t", "o", "r", "a", "g", "e", " ", "C", "h", "a", "n", "g", "e", "r", " ", "/", "d", "e", "v", "/", "s", "g", "0", ":", "1", " ", "D", "r", "i", "v", "e", "s", ",", " ", "2", " ", "S", "l", "o", "t", "s", " ", "(", "1", " ", "I", "m", "p", "o", "r", "t", "/", "E", "x", "p", "o", "r", "t", " ", ")">>
\* "  Storage Changer /dev/sg0:1 Drives, 2 Slots ( 1 Import/Export )": the header line as the mtx program and the mock print it
lHdrMtx == <<" ", " ", "S", "t", "o", "r", "a", "g", "e", " ", "C", "h", "a", "n", "g", "e", "r", " ", "/", "d", "e", "v", "/", "s", "g", "0", ":", "1", " ", "D", "r", "i", "v", "e", "s", ",", " ", "2", " ", "S", "l", "o", "t", "s", " ", "(", " ", "1", " ", "I", "m", "p", "o", "r", "t", "/", "E", "x", "p", "o", "r", "t", " ", ")">>
\* "Data Transfer Element 0:Empty"
lDriveEmpty == <<"D", "a", "t", "a", " ", "T", "r", "a", "n", "s", "f", "e", "r", " ", "E", "l", "e", "m", "e", "n", "t", " ", "0", ":", "E", "m", "p", "t", "y">>
\* "Data Transfer Element 0:Full (Storage Element 1 Loaded):VolumeTag = A"
lDriveFull == <<"D", "a", "t", "a", " ", "T", "r", "a", "n", "s", "f", "e", "r", " ", "E", "l", "e", "m", "e", "n", "t", " ", "0", ":", "F", "u", "l", "l", " ", "(", "S", "t", "o", "r", "a", "g", "e", " ", "E", "l", "e", "m", "e", "n", "t", " ", "1", " ", "L", "o", "a", "d", "e", "d", ")", ":", "V", "o", "l", "u", "m", "e", "T", "a", "g", " ", "=", " ", "A">>
\* "      Storage Element 1:Full :VolumeTag=B"
lSlotFull == <<" ", " ", " ", " ", " ", " ", "S", "t", "o", "r", "a", "g", "e", " ", "E", "l", "e", "m", "e", "n", "t", " ", "1", ":", "F", "u", "l", "l", " ", ":", "V", "o", "l", "u", "m", "e", "T", "a", "g", "=", "B">>
\* "      Storage Element 2 IMPORT/EXPORT:Empty"
lMailEmpty == <<" ", " ", " ", " ", " ", " ", "S", "t", "o", "r", "a", "g", "e", " ", "E", "l", "e", "m", "e", "n", "t", " ", "2", " ", "I", "M", "P", "O", "R", "T", "/", "E", "X", "P", "O", "R", "T", ":", "E", "m", "p", "t", "y">>
\* "junk": a line none of the three element patterns accepts
lJunk == <<"j", "u", "n", "k">>
\* "      Storage Element 1:Full": a storage line whose state is neither Empty nor the Full encoding
lSlotBadFull == <<" ", " ", " ", " ", " ", " ", "S", "t", "o", "r", "a", "g", "e", " ", "E", "l", "e", "m", "e", "n", "t", " ", "1", ":", "F", "u", "l", "l">>

\* "Data Transfer Element 0:Full :VolumeTag=A": a drive line whose state is the Full encoding of a slot
lDriveBadFull == <<"D", "a", "t", "a", " ", "T", "r", "a", "n", "s", "f", "e", "r", " ", "E", "l", "e", "m", "e", "n", "t", " ", "0", ":", "F", "u", "l", "l", " ", ":", "V", "o", "l", "u", "m", "e", "T", "a", "g", "=", "A">>
\* "      Storage Element 2 IMPORT/EXPORT:Loaded": a mail line whose state is neither Empty nor the Full encoding
lMailBadFull == <<" ", " ", " ", " ", " ", " ", "S", "t", "o", "r", "a", "g", "e", " ", "E", "l", "e", "m", "e", "n", "t", " ", "2", " ", "I", "M", "P", "O", "R", "T", "/", "E", "X", "P", "O", "R", "T", ":", "L", "o", "a", "d", "e", "d">>

LinePool == {lHdrPlain, lHdrMtx, lDriveEmpty, lDriveFull, lSlotFull, lMailEmpty,
             lJunk, lSlotBadFull, lDriveBadFull, lMailBadFull}

\* the texts of n lines of the pool, each ended by "\n"
RECURSIVE TextsOf(_)
TextsOf(n) == IF n = 0 THEN {<<>>}
              ELSE {l \o <<"\n">> \o t : l \in LinePool, t \in TextsOf(n - 1)}

Texts == UNION {TextsOf(n) : n \in 0..BoundLines}

InitParse ==
    /\ impl = "exec"
    /\ mock = New(0, 0, 0, 0)
    /\ newArgs = [numDrives |-> 0, numStorageSlots |-> 0,
                  numMailSlots |-> 0, numVolumes |-> 0]
    /\ \/ execErr = NoErr /\ stdout \in Texts
       \/ execErr = ExitErr /\ stdout \in TextsOf(0) \cup TextsOf(1)
    /\ last = NoCall
    /\ nops = 0
    /\ ndo = 0

NextParse ==
    \/ \E q \in Queries : Query(q)
    \/ Load(1, 0)
    \/ Unload(1, 0)
    \/ Transfer(1, 2)

SpecParse == InitParse /\ [][NextParse]_vars

----------------------------------------------------------------------------
(* SpecReadme: the library of the README's example, mock.New(8, 32, 4, 16), *)
(* and its first BoundOps calls.                                            *)

InitReadme ==
    /\ impl = "mock"
    /\ mock = New(8, 32, 4, 16)
    /\ newArgs = [numDrives |-> 8, numStorageSlots |-> 32,
                  numMailSlots |-> 4, numVolumes |-> 16]
    /\ stdout = <<>>
    /\ last = NoCall
    /\ nops = 0
    /\ execErr = NoErr
    /\ ndo = 0

NextReadme ==
    /\ nops < BoundOps
    /\ \E slotnum \in SlotNums, drivenum \in DriveNums : Load(slotnum, drivenum)

SpecReadme == InitReadme /\ [][NextReadme]_vars

----------------------------------------------------------------------------
(* Properties of the library changer and of the status parser. *)

\* the library as New built it
FreshChgr == New(newArgs.numDrives, newArgs.numStorageSlots,
                 newArgs.numMailSlots, newArgs.numVolumes)

\* the drives, then the slots, of a library
Places(chgr) == chgr.drives \o chgr.slots

\* the places that hold a volume
Held(chgr) == {i \in 1..Len(Places(chgr)) : Places(chgr)[i].Vol # Nil}

\* the multiset of the serials held: each serial with the number of places
\* that hold it
SerialBag(chgr) ==
    LET serials == {Places(chgr)[i].Vol.Serial : i \in Held(chgr)} IN
    [x \in serials |->
        Cardinality({i \in Held(chgr) : Places(chgr)[i].Vol.Serial = x})]

Occupied(slot) == slot.Vol # Nil

\* what Changer.Do of the mock returns for a transfer in the current state
TransferResult(a, b) == Do(mock, <<sCmdTransfer, Itoa(a), Itoa(b)>>)

\* what chgr.Do("status") returns in the current state
StatusResult == ChgrDo(<<sCmdStatus>>)

\* C1: in every state reached from New by load, unload and transfer calls
\* with in-range numbers, no serial is held by two places (slots or drives).
C1_NoSerialHeldTwice ==
    \A i \in Held(mock), j \in Held(mock) :
        Places(mock)[i].Vol.Serial = Places(mock)[j].Vol.Serial => i = j

\* C1's case: calls have moved a volume into a drive while others are held.
C1_Witness ==
    /\ \E d \in 1..Len(mock.drives) : Occupied(mock.drives[d])
    /\ Cardinality(Held(mock)) >= 2
    /\ mock # FreshChgr

\* what Changer.Do of the mock returns for a load or an unload in the current
\* state
LoadResult(s, d) == Do(mock, <<sCmdLoad, Itoa(s), Itoa(d)>>)
UnloadResult(s, d) == Do(mock, <<sCmdUnload, Itoa(s), Itoa(d)>>)

\* C2: in every reachable state, a call leaves the multiset of serials as it
\* was, unless it is a load or an unload whose source holds no volume or whose
\* destination (the home slot, for unload with slot 0) holds one.
C2_SerialsConserved ==
    /\ \A s \in SlotNums, d \in DriveNums :
          (Occupied(mock.slots[s]) /\ ~Occupied(mock.drives[d + 1]))
          => SerialBag(LoadResult(s, d).chgr) = SerialBag(mock)
    /\ \A s \in SlotNums \cup {0}, d \in DriveNums :
          (/\ Occupied(mock.drives[d + 1])
           /\ LET dest == IF s = 0 THEN mock.drives[d + 1].Vol.Home ELSE s
              IN ~(dest \in SlotNums /\ Occupied(mock.slots[dest])))
          => SerialBag(UnloadResult(s, d).chgr) = SerialBag(mock)
    /\ \A a \in SlotNums, b \in SlotNums :
          SerialBag(TransferResult(a, b).chgr) = SerialBag(mock)

\* C2's case: a load from a full slot into an empty drive has acted.
C2_Witness ==
    /\ last.op = "Load"
    /\ last.err = NoErr
    /\ Occupied(mock.drives[last.b + 1])
    /\ ~Occupied(mock.slots[last.a])

\* C3: transfer(a, b) fails when slot a is empty, fails when slot b is full,
\* and succeeds exactly when a is full and b is empty; then b holds what a
\* held and a is empty.
C3_TransferValidation ==
    \A a \in SlotNums, b \in SlotNums :
        LET r == TransferResult(a, b)
            failed == r.err \notin {NoErr, Panic}
        IN /\ ~Occupied(mock.slots[a]) => failed
           /\ Occupied(mock.slots[b]) => failed
           /\ r.err = NoErr <=> (Occupied(mock.slots[a]) /\ ~Occupied(mock.slots[b]))
           /\ r.err = NoErr => /\ r.chgr.slots[b].Vol = mock.slots[a].Vol
                               /\ r.chgr.slots[a].Vol = Nil

\* C3's case: a transfer has succeeded.
C3_Witness ==
    /\ last.op = "Transfer"
    /\ last.err = NoErr
    /\ Occupied(mock.slots[last.b])
    /\ ~Occupied(mock.slots[last.a])

\* C4: in every reachable state, a transfer that fails leaves every slot and
\* every drive as it was.
C4_FailedTransferChangesNothing ==
    \A a \in SlotNums, b \in SlotNums :
        TransferResult(a, b).err # NoErr => TransferResult(a, b).chgr = mock

\* C4's case: a transfer onto a full slot has failed.
C4_Witness ==
    /\ last.op = "Transfer"
    /\ last.err = "unable to transfer volume: slot already occupied"
    /\ last.a # last.b

\* C5: in a fresh library, for every slot s that holds a volume and every
\* drive dr, load(s, dr) then unload(0, dr) leaves the library as New built it:
\* the volume back in slot s, the drive empty, the other slots as they were.
C5_LoadThenUnloadHome ==
    [][\A s \in SlotNums, dr \in DriveNums :
           (/\ last = Call("Load", s, dr, <<>>, NoErr)
            /\ Occupied(FreshChgr.slots[s])
            /\ mock = load(FreshChgr, s, dr).chgr
            /\ Unload(0, dr))
           => mock' = FreshChgr]_vars

\* C6: the Status parsed from the simulator's status text has the simulator's
\* counts, and each drive's and slot's occupancy and serial.
C6_StatusMatchesSimulator ==
    LET st == Status(StatusResult) IN
    /\ st.err = NoErr
    /\ st.val.MaxDrives = mock.numDrives
    /\ st.val.NumSlots = mock.numStorageSlots + mock.numMailSlots
    /\ st.val.NumStorageSlots = mock.numStorageSlots
    /\ st.val.NumMailSlots = mock.numMailSlots
    /\ Len(st.val.Drives) = Len(mock.drives)
    /\ Len(st.val.Slots) = Len(mock.slots)
    /\ \A i \in 1..Len(mock.drives) :
          /\ Occupied(st.val.Drives[i]) <=> Occupied(mock.drives[i])
          /\ Occupied(mock.drives[i])
                => st.val.Drives[i].Vol.Serial = mock.drives[i].Vol.Serial
    /\ \A i \in 1..Len(mock.slots) :
          /\ Occupied(st.val.Slots[i]) <=> Occupied(mock.slots[i])
          /\ Occupied(mock.slots[i])
                => st.val.Slots[i].Vol.Serial = mock.slots[i].Vol.Serial

\* C7: over the simulator, MaxDrives, NumSlots, NumStorageSlots and
\* NumMailSlots return d, s + m, s and m, each without an error.
C7_HeaderCounts ==
    /\ MaxDrives(StatusResult) = Result(mock.numDrives, NoErr)
    /\ NumSlots(StatusResult)
           = Result(mock.numStorageSlots + mock.numMailSlots, NoErr)
    /\ NumStorageSlots(StatusResult) = Result(mock.numStorageSlots, NoErr)
    /\ NumMailSlots(StatusResult) = Result(mock.numMailSlots, NoErr)

\* the serial S0000nL6, for n < 10
SyntheticSerial(n) == <<"S", "0", "0", "0", "0", Digits[n + 1], "L", "6">>

\* C8: right after New(d, s, m, k) with s >= 1: slot s holds CLN000L1; every
\* other slot numbered i <= k (the last mail slot aside) holds the synthetic
\* serial numbered i - 1; with m >= 1 the last mail slot holds the synthetic
\* serial numbered k; the drives are empty.
C8_FreshLibrary ==
    (nops = 0 /\ newArgs.numStorageSlots >= 1) =>
        LET s == newArgs.numStorageSlots
            m == newArgs.numMailSlots
            k == newArgs.numVolumes
        IN /\ Occupied(mock.slots[s]) /\ mock.slots[s].Vol.Serial = sCLN
           /\ \A i \in 1..(s + m) :
                 (i # s /\ i <= k /\ ~(m >= 1 /\ i = s + m))
                 => /\ Occupied(mock.slots[i])
                    /\ mock.slots[i].Vol.Serial = SyntheticSerial(i - 1)
           /\ m >= 1 => /\ Occupied(mock.slots[s + m])
                        /\ mock.slots[s + m].Vol.Serial = SyntheticSerial(k)
           /\ \A d \in 1..Len(mock.drives) : ~Occupied(mock.drives[d])

\* S00000L6 to S00016L6
ReadmeSerials ==
  <<
     <<"S", "0", "0", "0", "0", "0", "L", "6">>,
     <<"S", "0", "0", "0", "0", "1", "L", "6">>,
     <<"S", "0", "0", "0", "0", "2", "L", "6">>,
     <<"S", "0", "0", "0", "0", "3", "L", "6">>,
     <<"S", "0", "0", "0", "0", "4", "L", "6">>,
     <<"S", "0", "0", "0", "0", "5", "L", "6">>,
     <<"S", "0", "0", "0", "0", "6", "L", "6">>,
     <<"S", "0", "0", "0", "0", "7", "L", "6">>,
     <<"S", "0", "0", "0", "0", "8", "L", "6">>,
     <<"S", "0", "0", "0", "0", "9", "L", "6">>,
     <<"S", "0", "0", "0", "1", "0", "L", "6">>,
     <<"S", "0", "0", "0", "1", "1", "L", "6">>,
     <<"S", "0", "0", "0", "1", "2", "L", "6">>,
     <<"S", "0", "0", "0", "1", "3", "L", "6">>,
     <<"S", "0", "0", "0", "1", "4", "L", "6">>,
     <<"S", "0", "0", "0", "1", "5", "L", "6">>,
     <<"S", "0", "0", "0", "1", "6", "L", "6">>
  >>

\* The parts of C9 that do not name the last mail slot: slot 32 holds
\* CLN000L1, slots 1 to 16 hold S00000L6 to S00015L6, drives 0 to 7 are empty.
C9_ReadmeRest ==
    /\ Len(mock.drives) = 8
    /\ \A d \in 1..8 : mock.drives[d].Num = d - 1 /\ ~Occupied(mock.drives[d])
    /\ Len(mock.slots) = 36
    /\ mock.slots[32].Type = StorageSlot
    /\ Occupied(mock.slots[32]) /\ mock.slots[32].Vol.Serial = sCLN
    /\ \A i \in 1..16 : /\ Occupied(mock.slots[i])
                        /\ mock.slots[i].Vol.Serial = ReadmeSerials[i]

\* the number of the last slot of type MailSlot
LastMailSlot ==
    CHOOSE i \in 1..Len(mock.slots) :
        /\ mock.slots[i].Type = MailSlot
        /\ \A j \in (i + 1)..Len(mock.slots) : mock.slots[j].Type # MailSlot

\* C9, as amended: right after New(8, 32, 4, 16) the mail slots are 33 to 36;
\* the last of them, slot 36, holds S00016L6 and slots 33 to 35 are empty;
\* slot 32 holds CLN000L1, slots 1 to 16 hold S00000L6 to S00015L6, and
\* drives 0 to 7 are empty.
C9_ReadmeLibrary ==
    nops = 0 =>
        /\ C9_ReadmeRest
        /\ \A i \in 33..36 : mock.slots[i].Type = MailSlot /\ mock.slots[i].Num = i
        /\ LastMailSlot = 36
        /\ Occupied(mock.slots[36]) /\ mock.slots[36].Vol.Serial = ReadmeSerials[17]
        /\ \A i \in 33..35 : ~Occupied(mock.slots[i])

\* C9's case: the library New(8, 32, 4, 16) as constructed.
C9_Witness ==
    /\ nops = 0
    /\ newArgs = [numDrives |-> 8, numStorageSlots |-> 32,
                  numMailSlots |-> 4, numVolumes |-> 16]
    /\ mock = FreshChgr

\* C9, as stated: the last of the 4 mail slots has index 33 (slot number 33,
\* or index 33 of the slice, which is slot number 34) and holds S00016L6.
C9_AsStated ==
    nops = 0 =>
        /\ C9_ReadmeRest
        /\ \E i \in {33, 34} :
              /\ LastMailSlot = i
              /\ Occupied(mock.slots[i])
              /\ mock.slots[i].Vol.Serial = ReadmeSerials[17]

\* the lines of a status text
TextLines == ScanLines(stdout)

HeaderMissing ==
    TextLines = <<>> \/ ~FindStringSubmatch(hdrRegexp, TextLines[1]).ok

Unrecognized(line) ==
    /\ ~FindStringSubmatch(driveRegexp, line).ok
    /\ ~FindStringSubmatch(slotRegexp, line).ok
    /\ ~FindStringSubmatch(mailSlotRegexp, line).ok

\* C10: for a status text with no header line, or with an unrecognized body
\* line, Status returns an error and no Status value.
C10_StatusRejectsMalformed ==
    (last.op = "Status"
       /\ (HeaderMissing \/ \E i \in 2..Len(TextLines) : Unrecognized(TextLines[i])))
    => (last.err # NoErr /\ last.val = <<NoStatus>>)

CountQueries == {"MaxDrives", "NumSlots", "NumStorageSlots", "NumMailSlots"}

ListQueries == {"Drives", "Slots", "StorageSlots", "MailSlots"}

UnrecognizedBodyLine ==
    \E i \in 2..Len(TextLines) : Unrecognized(TextLines[i])

\* C11: each of MaxDrives, NumSlots, NumStorageSlots, NumMailSlots, Drives,
\* Slots, StorageSlots and MailSlots returns an error when the status text is
\* empty or its first line is not a header, and when a body line is
\* unrecognized.
C11_HeaderMandatory ==
    (/\ last.op \in CountQueries \cup ListQueries
     /\ execErr = NoErr
     /\ (HeaderMissing \/ UnrecognizedBodyLine))
    => last.err # NoErr

\* "eject": a command the simulator does not know
sCmdEject == <<"e", "j", "e", "c", "t">>

\* the arguments tried after a command: two numbers and a word
ArgWords == {<<"0">>, <<"1">>, <<"x">>}

\* the argument lists of length n
RECURSIVE ArgTails(_)
ArgTails(n) == IF n = 0 THEN {<<>>}
               ELSE {<<w>> \o t : w \in ArgWords, t \in ArgTails(n - 1)}

\* the invocations of Do tried: no command, or a command and up to three
\* arguments
DoInvocations ==
    {<<>>} \cup
    {<<c>> \o t : c \in {sCmdStatus, sCmdLoad, sCmdUnload, sCmdTransfer, sCmdEject},
                  t \in UNION {ArgTails(n) : n \in 0..3}}

\* "status" alone, or load, unload or transfer with two integers
WellFormed(args) ==
    \/ args = <<sCmdStatus>>
    \/ /\ Len(args) = 3
       /\ args[1] \in {sCmdLoad, sCmdUnload, sCmdTransfer}
       /\ args[2] \in {<<"0">>, <<"1">>}
       /\ args[3] \in {<<"0">>, <<"1">>}

\* the errors Changer.Do gives for an invocation it does not accept
ArgumentErrors == {"no command given", "wrong number of arguments",
                   "strconv.Atoi: invalid syntax",
                   "mtx/mock: unknown or unsupported mtx command"}

\* C12: the simulator's Do accepts "status" with no further argument and load,
\* unload and transfer with two integers; every other invocation returns an
\* error and leaves the simulator as it was.
C12_DoValidatesArguments ==
    \A args \in DoInvocations :
        LET r == Do(mock, args) IN
        IF WellFormed(args) THEN r.err \notin ArgumentErrors
        ELSE r.err \in ArgumentErrors /\ r.chgr = mock

\* C13: for all in-range slot and drive numbers and any occupancy, load(s, dr),
\* unload(s, dr) and unload(0, dr) return success: no error and no crash.
C13_LoadUnloadPermissive ==
    \A d \in DriveNums :
        /\ \A s \in SlotNums : /\ LoadResult(s, d).err = NoErr
                               /\ UnloadResult(s, d).err = NoErr
        /\ UnloadResult(0, d).err = NoErr

\* list holds n slots of the given type, numbered first, first + 1, ...
NumberedFrom(list, first, n, type) ==
    /\ Len(list) = n
    /\ \A i \in 1..n : list[i].Num = first + i - 1 /\ list[i].Type = type

\* C14: in every reachable state of the simulator Drives() returns the drives
\* numbered 0 to d - 1; StorageSlots() the storage slots numbered 1 to s;
\* MailSlots() the mail slots numbered s + 1 to s + m; and Slots() the storage
\* slots and then the mail slots, numbered 1 to s + m.  Every reachable state
\* of the simulator occurs with no call recorded (a query leaves the simulator
\* as it is), so the queries are evaluated in those states.
C14_SlotOrder ==
    last = NoCall =>
    LET r == StatusResult
        d == mock.numDrives
        s == mock.numStorageSlots
        m == mock.numMailSlots
        drives == Drives(r)
        storage == StorageSlots(r)
        mail == MailSlots(r)
        slots == Slots(r)
    IN /\ drives.err = NoErr /\ NumberedFrom(drives.val, 0, d, DataTransferSlot)
       /\ storage.err = NoErr /\ NumberedFrom(storage.val, 1, s, StorageSlot)
       /\ mail.err = NoErr /\ NumberedFrom(mail.val, s + 1, m, MailSlot)
       /\ slots.err = NoErr
       /\ slots.val = storage.val \o mail.val
       /\ \A i \in 1..(s + m) : slots.val[i].Num = i

\* C14's case: Slots() has returned storage slots followed by mail slots.
C14_Witness ==
    /\ last.op = "Slots"
    /\ last.err = NoErr
    /\ \E i \in 1..(Len(last.val[1]) - 1) :
          /\ last.val[1][i].Type = StorageSlot
          /\ last.val[1][i + 1].Type = MailSlot

\* the parsed list has the numbers, the occupancy and the serials of held
SameContents(parsed, held) ==
    /\ Len(parsed) = Len(held)
    /\ \A i \in 1..Len(held) :
          /\ parsed[i].Num = held[i].Num
          /\ Occupied(parsed[i]) <=> Occupied(held[i])
          /\ Occupied(held[i]) => parsed[i].Vol.Serial = held[i].Vol.Serial

\* C15: no caching: a query made after load, unload and transfer calls issues
\* one "status" command and its result is that of the simulator as it is at
\* that call: the counts d, s + m, s and m, and the drives and slots as they
\* are held now.
C15_QueriesReflectState ==
    (last.op \in {"Load", "Unload", "Transfer"} /\ last.err = NoErr) =>
        LET r == StatusResult
            d == mock.numDrives
            s == mock.numStorageSlots
            m == mock.numMailSlots
            st == Status(r)
        IN /\ MaxDrives(r) = Result(d, NoErr)
           /\ NumSlots(r) = Result(s + m, NoErr)
           /\ NumStorageSlots(r) = Result(s, NoErr)
           /\ NumMailSlots(r) = Result(m, NoErr)
           /\ Drives(r).err = NoErr /\ SameContents(Drives(r).val, mock.drives)
           /\ Slots(r).err = NoErr /\ SameContents(Slots(r).val, mock.slots)
           /\ StorageSlots(r).err = NoErr
           /\ SameContents(StorageSlots(r).val, SubSeq(mock.slots, 1, s))
           /\ MailSlots(r).err = NoErr
           /\ SameContents(MailSlots(r).val, SubSeq(mock.slots, s + 1, s + m))
           /\ st.err = NoErr
           /\ st.val.MaxDrives = d /\ st.val.NumSlots = s + m
           /\ st.val.NumStorageSlots = s /\ st.val.NumMailSlots = m
           /\ SameContents(st.val.Drives, mock.drives)
           /\ SameContents(st.val.Slots, mock.slots)

\* C16: every call of the Changer invokes the executor once; when the executor
\* fails, the call returns the executor's error and no result: -1 for a count,
\* no list, no Status.
C16_ExecutorFailureSurfaced ==
    /\ nops > 0 => ndo = 1
    /\ last.op \in {"Load", "Unload", "Transfer"} => last.err = execErr
    /\ (last.op \in Queries /\ execErr # NoErr) =>
          /\ last.err = execErr
          /\ last.op \in CountQueries => last.val = <<-1>>
          /\ last.op \in ListQueries => last.val = << <<>> >>
          /\ last.op = "Status" => last.val = <<NoStatus>>

\* C16's case: the executor has failed under a Status call.
C16_Witness ==
    /\ last.op = "Status"
    /\ execErr = ExitErr
    /\ last.err = ExitErr
    /\ ndo = 1

BadNestedBodyLine == \E i \in 2..Len(TextLines) : BadNested(TextLines[i])

\* C17: when the state of a drive, storage or mail line is not "Empty" and not
\* the Full encoding of its kind, Changer.elements returns an error and no
\* slots (not that slot as an empty one, not the slots read before it), and so
\* do Drives, Slots, StorageSlots and MailSlots.
C17_NestedFullMismatch ==
    /\ (last = NoCall /\ BadNestedBodyLine) =>
          /\ elements(stdout).err # NoErr
          /\ elements(stdout).elements = NoElements
    /\ (last.op \in ListQueries /\ execErr = NoErr /\ BadNestedBodyLine) =>
          /\ last.err # NoErr
          /\ last.val = << <<>> >>

\* C17's case: a list query has read a line of a kind with an unreadable
\* state, after a line it could read.
C17_Witness ==
    /\ last.op \in ListQueries
    /\ execErr = NoErr
    /\ Len(TextLines) = 3
    /\ TextLines[2] \in {lDriveEmpty, lDriveFull, lSlotFull, lMailEmpty}
    /\ TextLines[3] \in {lDriveBadFull, lSlotBadFull, lMailBadFull}
    /\ last.err \in {"failed to parse transfer element",
                     "failed to parse slot element: ...",
                     "failed to parse slot element"}

\* the slots and drives of chgr other than the slots in except, with their
\* numbers and types
Frame(chgr, exceptSlots, exceptDrives) ==
    [drives |-> [i \in (1..Len(chgr.drives)) \ exceptDrives |-> chgr.drives[i]],
     slots |-> [i \in (1..Len(chgr.slots)) \ exceptSlots |-> chgr.slots[i]],
     sizes |-> <<Len(chgr.drives), Len(chgr.slots), chgr.numDrives,
                 chgr.numStorageSlots, chgr.numMailSlots>>,
     shape |-> [i \in 1..Len(chgr.slots) |-> <<chgr.slots[i].Num, chgr.slots[i].Type>>],
     dshape |-> [i \in 1..Len(chgr.drives) |-> <<chgr.drives[i].Num, chgr.drives[i].Type>>]]

\* C18: a transfer(a, b) that succeeds empties slot a and gives slot b the
\* volume a held, with its serial and home; every other slot, every drive and
\* every slot's number and type are as before.
C18_TransferFrame ==
    \A a \in SlotNums, b \in SlotNums :
        LET r == TransferResult(a, b) IN
        r.err = NoErr =>
            /\ a # b
            /\ Frame(r.chgr, {a, b}, {}) = Frame(mock, {a, b}, {})
            /\ r.chgr.slots[a].Vol = Nil
            /\ r.chgr.slots[b].Vol = mock.slots[a].Vol
            /\ r.chgr.slots[b].Vol.Serial = mock.slots[a].Vol.Serial
            /\ r.chgr.slots[b].Vol.Home = mock.slots[a].Vol.Home

\* C18's case: a transfer has moved a volume while a third slot holds one.
C18_Witness ==
    /\ last.op = "Transfer"
    /\ last.err = NoErr
    /\ Occupied(mock.slots[last.b])
    /\ \E i \in SlotNums \ {last.a, last.b} : Occupied(mock.slots[i])

\* C19: load(s, dr) empties slot s and gives drive dr what slot s held;
\* unload(s, dr) empties drive dr and gives the destination slot what drive dr
\* held (for unload(0, dr) the destination is the home of the drive's volume,
\* and a call that crashes changes nothing); all other slots and drives, the
\* sizes and every slot's number and type are as before.
C19_LoadUnloadFrame ==
    \A d \in DriveNums :
        /\ \A s \in SlotNums :
              LET r == LoadResult(s, d) IN
              /\ r.err = NoErr
              /\ r.chgr.slots[s].Vol = Nil
              /\ r.chgr.drives[d + 1].Vol = mock.slots[s].Vol
              /\ Frame(r.chgr, {s}, {d + 1}) = Frame(mock, {s}, {d + 1})
        /\ \A s \in SlotNums :
              LET r == UnloadResult(s, d) IN
              /\ r.err = NoErr
              /\ r.chgr.drives[d + 1].Vol = Nil
              /\ r.chgr.slots[s].Vol = mock.drives[d + 1].Vol
              /\ Frame(r.chgr, {s}, {d + 1}) = Frame(mock, {s}, {d + 1})
        /\ LET r == UnloadResult(0, d) IN
           IF r.err = NoErr
           THEN LET home == mock.drives[d + 1].Vol.Home IN
                /\ r.chgr.drives[d + 1].Vol = Nil
                /\ r.chgr.slots[home].Vol = mock.drives[d + 1].Vol
                /\ Frame(r.chgr, {home}, {d + 1}) = Frame(mock, {home}, {d + 1})
           ELSE r.err = Panic /\ r.chgr = mock

\* C19's case: a load has moved a volume into a drive while another slot
\* holds one.
C19_Witness ==
    /\ last.op = "Load"
    /\ last.err = NoErr
    /\ Occupied(mock.drives[last.b + 1])
    /\ mock.drives[last.b + 1].Vol = FreshChgr.slots[last.a].Vol
    /\ \E i \in SlotNums \ {last.a} : Occupied(mock.slots[i])


\* the volumes of a parsed list have the homes the simulator holds for them
SameHomes(parsed, held) ==
    /\ Len(parsed) = Len(held)
    /\ \A i \in 1..Len(held) :
          Occupied(held[i]) =>
              /\ Occupied(parsed[i])
              /\ parsed[i].Vol.Serial = held[i].Vol.Serial
              /\ parsed[i].Vol.Home = held[i].Vol.Home

\* C20: in every reachable simulator state the home of every volume of the
\* parsed inventory (Drives() and Slots()) is the home the simulator holds for
\* the volume with that serial, and every volume resident in a slot has as
\* its internal home that slot's number.
C20_ParsedHomesAgree ==
    last = NoCall =>
        LET r == StatusResult IN
        /\ Drives(r).err = NoErr /\ SameHomes(Drives(r).val, mock.drives)
        /\ Slots(r).err = NoErr /\ SameHomes(Slots(r).val, mock.slots)
        /\ \A i \in SlotNums :
              Occupied(mock.slots[i]) => mock.slots[i].Vol.Home = i

====
